---------------------------- MODULE Spec2Model ----------------------------
(***************************************************************************)
(* Model of simd/arm/common/jdsample-neon.c: the two "fancy" upsampling    *)
(* kernels jsimd_h2v2_fancy_upsample_neon and                              *)
(* jsimd_h1v2_fancy_upsample_neon.                                         *)
(*                                                                         *)
(* A state holds one invocation of one kernel: its parameters, the sample  *)
(* buffers, the local variables of the C function and the position in its  *)
(* control flow.  The buffers are held twice (Runs): the same invocation   *)
(* on the same logical samples, with different contents of the padding     *)
(* columns and of the output buffers before the call.  The control flow of *)
(* both kernels depends on max_v_samp_factor and downsampled_width only,   *)
(* so the two runs take the same steps.                                    *)
(*                                                                         *)
(* Each NEON intrinsic is an operator that computes what the instruction   *)
(* computes in one lane, with the lane width kept (% 2^16, % 2^8).         *)
(***************************************************************************)
EXTENDS Integers, Sequences, FiniteSets

\* ------------------------------------------------------------ bounds

\* Largest downsampled_width of the pattern inputs.
MaxWidth == 33
\* Largest max_v_samp_factor (the even values up to it are used).
MaxV == 4
\* Largest small downsampled_width of the flat inputs.
MaxFlatWidth == 3
\* Largest small downsampled_width of the two-tone inputs.
MaxPairWidth == 1
\* The two-tone inputs take the neighbour sample from 0..MaxNbr and from
\* 255-MaxNbr..255, so that 3*a+b takes every value in 0..1020.
MaxNbr == 3

\* ------------------------------------------------- program constants

\* Lanes of a uint8x16_t, and the step of the column loops.
VecLen == 16
\* Largest JSAMPLE (8-bit samples).
MAXJSAMPLE == 255
\* Row buffers are a multiple of this many bytes.
RowAlign == 32
\* The minimum size of an output row buffer.
MinOutRow == 64

Runs == {1, 2}
Kernels == {"h2v2", "h1v2"}

Pow2(n) == IF n = 0 THEN 1 ELSE IF n = 1 THEN 2 ELSE IF n = 2 THEN 4
           ELSE IF n = 3 THEN 8 ELSE IF n = 4 THEN 16 ELSE IF n = 8 THEN 256
           ELSE 65536

Larger(a, b) == IF a >= b THEN a ELSE b

RoundUp(x, m) == ((x + m - 1) \div m) * m

\* Capacity of an input row: jmemmgr.c pads each row to a multiple of 32.
InCap(W) == RoundUp(W, RowAlign)

\* Capacity of an output row of a kernel.
OutCap(k, W) ==
  IF k = "h2v2" THEN Larger(MinOutRow, RoundUp(2 * W, RowAlign))
  ELSE RoundUp(W, RowAlign)

\* Logical width of an output row of a kernel.
OutWidth(k, W) == IF k = "h2v2" THEN 2 * W ELSE W

\* ------------------------------------------------------- memory

\* row[i]; an index outside the buffer reads nothing that is known
\* (ColsInBounds shows that no reachable state takes this branch).
Load(row, i) == IF i \in DOMAIN row THEN row[i] ELSE 0

\* table[r], for a row pointer fetched from a row-pointer table.
RowAt(table, r) == IF r \in DOMAIN table THEN table[r] ELSE << >>

GETJSAMPLE(x) == x % Pow2(8)

\* The (JSAMPLE) cast of an int.
JSAMPLE(x) == x % Pow2(8)

\* The largest element of S.  T ranges over {S} so that S is evaluated once.
MaxOf(S) == CHOOSE m \in UNION {{x \in T : \A y \in T : y <= x} : T \in {S}} : TRUE

\* ------------------------------------------------------- intrinsics
\* A lane-wise instruction is given by what it does to one lane.  vget_low_u8,
\* vget_high_u8 and vcombine_u8 only route lanes: lane k of a 16-lane result
\* comes from lane k of the 16-lane loads, through the low half for k < 8 and
\* through the high half otherwise.

vdupq_n_u16(x) == x % Pow2(16)

vdup_n_u8(x) == x % Pow2(8)

\* Lane k of the 16-lane load at row + off.
vld1q_u8(row, off, k) == Load(row, off + k)

\* Zero-extend an 8-bit lane to a 16-bit lane.
vmovl_u8(x) == x % Pow2(16)

\* a + b * c before it is cut to the lane width.
MulAcc(a, b, c) == a + b * c

\* Widening multiply-accumulate: 16-bit a + 8-bit b * 8-bit c.
vmlal_u8(a, b, c) == MulAcc(a, b, c) % Pow2(16)

\* Multiply-accumulate in a 16-bit lane.
vmlaq_u16(a, b, c) == MulAcc(a, b, c) % Pow2(16)

vaddq_u16(a, b) == (a + b) % Pow2(16)

\* a >> n.
ShiftRight(a, n) == a \div Pow2(n)

\* The rounding shift (a + 2^(n-1)) >> n; the sum is not cut to 16 bits.
RoundShiftRight(a, n) == (a + Pow2(n - 1)) \div Pow2(n)

\* Shift right and narrow to 8 bits.
vshrn_n_u16(a, n) == ShiftRight(a, n) % Pow2(8)

\* Rounding shift right and narrow to 8 bits.
vrshrn_n_u16(a, n) == RoundShiftRight(a, n) % Pow2(8)

\* Columns the interleaving store vst2q_u8(row + off, pair) writes.
St2Writes(off) == off..(off + 2 * VecLen - 1)

\* The lane that vst2q_u8(row + off, pair) stores at column c.
St2Lane(off, c) == (c - off) \div 2

\* The vector of the pair (0: val[0], 1: val[1]) it stores at column c.
St2Val(off, c) == (c - off) % 2

\* Columns one 16-lane load or store at off touches.
Q16Cols(off) == off..(off + VecLen - 1)

\* ------------------------------------------------- kernel constants

\* Mutant of seven_u16: the same rounding for odd and even pixels.
seven_u16_uniform == vdupq_n_u16(8)

seven_u16 == vdupq_n_u16(7)

\* Mutant of three_u8: a 2 : 1 vertical blend.
three_u8_as_two == vdup_n_u8(2)

three_u8 == vdup_n_u8(3)

three_u16 == vdupq_n_u16(3)

\* Mutant of one_u16: the bias of the rounding shift on the even rows too.
one_u16_as_two == vdupq_n_u16(2)

one_u16 == vdupq_n_u16(1)

\* The right shift of the h1v2 kernel (divide by 4).
H1V2Shift == 2

\* Mutant of H2V2Shift: the shift of the other kernel.
H2V2Shift_of_h1v2 == H1V2Shift

\* The right shift of the h2v2 kernel (divide by 16).
H2V2Shift == 4

\* ------------------------------------------------- h2v2: the general case

\* Step 1 for one lane: the vertical blend of column col, 3 : 1 between the
\* row cur of the samples and the neighbouring row nbr.
VBlend(cur, nbr, col) ==
  vmlal_u8(vmovl_u8(vld1q_u8(nbr, col, 0)), vld1q_u8(cur, col, 0), three_u8)

\* Mutant of H2V2Pixel: the weights of the two columns exchanged.
H2V2Pixel_swapped(cur, nbr, off, k, val) ==
  IF val = 0
  THEN vshrn_n_u16(vaddq_u16(vmlaq_u16(VBlend(cur, nbr, off + k),
                                       VBlend(cur, nbr, off + 1 + k), three_u16),
                             seven_u16),
                   H2V2Shift)
  ELSE vrshrn_n_u16(vmlaq_u16(VBlend(cur, nbr, off + 1 + k),
                              VBlend(cur, nbr, off + k), three_u16),
                    H2V2Shift)

\* Lane k of one vector of output_pixels0 (nbr = r0) or output_pixels1
\* (nbr = r2) of a block whose s0 loads start at column off and whose s1 loads
\* start at off + 1: val[0], the odd pixels, for val = 0 and val[1], the even
\* pixels, for val = 1.
H2V2Pixel(cur, nbr, off, k, val) ==
  IF val = 0
  THEN vshrn_n_u16(vaddq_u16(vmlaq_u16(VBlend(cur, nbr, off + 1 + k),
                                       VBlend(cur, nbr, off + k), three_u16),
                             seven_u16),
                   H2V2Shift)
  ELSE vrshrn_n_u16(vmlaq_u16(VBlend(cur, nbr, off + k),
                              VBlend(cur, nbr, off + 1 + k), three_u16),
                    H2V2Shift)

\* The largest value lane k of that block gives to a 16-bit lane, before the
\* cut to 16 bits.
H2V2Wide(cur, nbr, off, k) == MaxOf(
  { MulAcc(vmovl_u8(vld1q_u8(nbr, off + k, 0)), vld1q_u8(cur, off + k, 0), three_u8),
    MulAcc(vmovl_u8(vld1q_u8(nbr, off + 1 + k, 0)), vld1q_u8(cur, off + 1 + k, 0), three_u8),
    MulAcc(VBlend(cur, nbr, off + 1 + k), VBlend(cur, nbr, off + k), three_u16),
    vmlaq_u16(VBlend(cur, nbr, off + 1 + k), VBlend(cur, nbr, off + k), three_u16)
      + seven_u16,
    MulAcc(VBlend(cur, nbr, off + k), VBlend(cur, nbr, off + 1 + k), three_u16),
    vmlaq_u16(VBlend(cur, nbr, off + k), VBlend(cur, nbr, off + 1 + k), three_u16)
      + Pow2(H2V2Shift - 1) })

\* The largest value lane k of that block narrows to 8 bits, before the cut
\* to 8 bits.
H2V2Narrow(cur, nbr, off, k) == MaxOf(
  { ShiftRight(vaddq_u16(vmlaq_u16(VBlend(cur, nbr, off + 1 + k),
                                   VBlend(cur, nbr, off + k), three_u16),
                         seven_u16),
               H2V2Shift),
    RoundShiftRight(vmlaq_u16(VBlend(cur, nbr, off + k),
                              VBlend(cur, nbr, off + 1 + k), three_u16),
                    H2V2Shift) })

\* Columns the loads of one h2v2 block read: off .. off + 16.
H2V2BlendReads(off) == off..(off + VecLen)

\* ------------------------------------------------- h2v2: the scalar pixels

\* The vertical blend of the scalar cases.
ColSum(cur, nbr) == GETJSAMPLE(cur) * 3 + GETJSAMPLE(nbr)

\* Mutant of FirstPixelInt: the bias of the last pixel.
FirstPixelInt_bias7(s) == (s * 4 + 7) \div Pow2(4)

\* Mutant of LastPixelInt: the bias of the first pixel.
LastPixelInt_bias8(s) == (s * 4 + 8) \div Pow2(4)

\* Case 1, before the cast: the first pixel from the vertical blend s.
FirstPixelInt(s) == (s * 4 + 8) \div Pow2(4)

\* Case 2, before the cast: the last pixel from the vertical blend s.
LastPixelInt(s) == (s * 4 + 7) \div Pow2(4)

FirstPixel(s) == JSAMPLE(FirstPixelInt(s))

LastPixel(s) == JSAMPLE(LastPixelInt(s))

\* Offset of the stores of the first block.
FirstStoreOffset == 1

\* Offset of the s0 loads of a loop iteration.
LoopLoadOffset(c) == c - 1

\* Mutant of LoopStoreOffset: the stores keep the shift by one byte of the
\* first block.
LoopStoreOffset_unaligned(c) == 2 * c + 1

\* Offset of the stores of a loop iteration.
LoopStoreOffset(c) == 2 * c - 1

\* Mutant of LastPixelIndex: one past the last pixel.
LastPixelIndex_past(W) == 2 * W

\* Index of the last pixel of an output row.
LastPixelIndex(W) == 2 * W - 1

\* ------------------------------------------------- h1v2: the loop body

\* Lane k of output_pixels0 (top = TRUE, nbr = r0) or output_pixels1
\* (top = FALSE, nbr = r2) of the block at column off.
H1V2Pixel(cur, nbr, off, k, top) ==
  IF top
  THEN vshrn_n_u16(vaddq_u16(VBlend(cur, nbr, off + k), one_u16), H1V2Shift)
  ELSE vrshrn_n_u16(VBlend(cur, nbr, off + k), H1V2Shift)

\* The largest value lane k of that block gives to a 16-bit lane, before the
\* cut to 16 bits.
H1V2Wide(cur, nbr, off, k) == MaxOf(
  { MulAcc(vmovl_u8(vld1q_u8(nbr, off + k, 0)), vld1q_u8(cur, off + k, 0), three_u8),
    VBlend(cur, nbr, off + k) + one_u16,
    VBlend(cur, nbr, off + k) + Pow2(H1V2Shift - 1) })

\* The value lane k of that block narrows to 8 bits, before the cut to 8 bits.
H1V2Narrow(cur, nbr, off, k, top) ==
  IF top
  THEN ShiftRight(vaddq_u16(VBlend(cur, nbr, off + k), one_u16), H1V2Shift)
  ELSE RoundShiftRight(VBlend(cur, nbr, off + k), H1V2Shift)

\* ------------------------------------------------------- state

VARIABLES
  kernel,             \* which of the two functions was called
  max_v_samp_factor,  \* parameter
  downsampled_width,  \* parameter
  input_data,         \* per run: row index -> column -> sample (rows -1 .. V/2)
  output_data,        \* per run: row index -> column -> sample (rows 0 .. V-1)
  inptr0,             \* row pointers, held as indices into input_data
  inptr1,
  inptr2,
  outptr0,            \* row pointers, held as indices into output_data
  outptr1,
  inrow,
  outrow,
  colctr,
  pc,                 \* "while", "case1", "general", "for", "done"
  rowlog,             \* per iteration of the row loop: the rows it fetched
  colsRead,           \* column indices read through inptr0..2 so far
  colsWritten,        \* column indices written through outptr0..1 so far
  wide,               \* largest value given to a 16-bit lane, before the cut
  narrow              \* largest value narrowed to 8 bits, before the cut

vars == << kernel, max_v_samp_factor, downsampled_width, input_data, output_data,
           inptr0, inptr1, inptr2, outptr0, outptr1, inrow, outrow, colctr, pc,
           rowlog, colsRead, colsWritten, wide, narrow >>

params == << kernel, max_v_samp_factor, downsampled_width, input_data >>

\* ------------------------------------------------------- inputs

Samples == 0..MAXJSAMPLE

\* The even row-group sizes.
VFactors == {v \in 2..MaxV : v % 2 = 0}

\* Input rows a call may touch: one row of context above and below the group.
InRows(V) == (-1)..(V \div 2)

\* The pattern inputs: sample base + rowStep * row + colStep * column (mod 256).
Patterns == [base : {0, 83, MAXJSAMPLE}, rowStep : {0, 90}, colStep : {0, 37}]

\* The widths of the flat inputs: the small ones, and one that needs the loop.
FlatWidths == (1..MaxFlatWidth) \cup {VecLen + 1}

\* The widths of the two-tone inputs, likewise.
PairWidths == (1..MaxPairWidth) \cup {VecLen + 1}

\* The neighbour samples of the two-tone inputs: the lowest and the highest.
NbrSamples == (0..MaxNbr) \cup ((MAXJSAMPLE - MaxNbr)..MAXJSAMPLE)

\* Per run, the seed of what the padding and the output rows hold before the
\* call: different in the two runs.
Garbages == {g \in [Runs -> {0, MAXJSAMPLE}] : g[1] # g[2]}

\* What the padding columns of the input rows and the output rows hold before
\* the call, for a seed g.
Garbage(g, r, c) == (g + 7 * (r + 1) + 13 * c) % (MAXJSAMPLE + 1)

\* The logical samples of a pattern.
PatternImage(p, V, W) ==
  [r \in InRows(V) |-> [c \in 0..(W - 1) |->
     (p.base + p.rowStep * (r + 1) + p.colStep * c) % (MAXJSAMPLE + 1)]]

\* The same sample everywhere.
FlatImage(v, V, W) == [r \in InRows(V) |-> [c \in 0..(W - 1) |-> v]]

\* Sample a in the rows of the group, sample b in the context rows -1 and V/2.
PairImage(a, b, V, W) ==
  [r \in InRows(V) |-> [c \in 0..(W - 1) |->
     IF r = -1 \/ r = V \div 2 THEN b ELSE a]]

\* The state at the entry of kernel k, called with (V, W), logical samples img
\* and, per run, the garbage seed garb[run].
Start(k, V, W, img, garb) ==
  /\ kernel = k
  /\ max_v_samp_factor = V
  /\ downsampled_width = W
  /\ input_data = [run \in Runs |-> [r \in InRows(V) |-> [c \in 0..(InCap(W) - 1) |->
                     IF c < W THEN img[r][c] ELSE Garbage(garb[run], r, c)]]]
  /\ output_data = [run \in Runs |-> [r \in 0..(V - 1) |->
                      [c \in 0..(OutCap(k, W) - 1) |-> Garbage(garb[run], r, c)]]]
  /\ inptr0 = 0 /\ inptr1 = 0 /\ inptr2 = 0
  /\ outptr0 = 0 /\ outptr1 = 0
  /\ inrow = 0 /\ outrow = 0
  /\ colctr = 0
  /\ pc = "while"
  /\ rowlog = << >>
  /\ colsRead = {}
  /\ colsWritten = {}
  /\ wide = 0
  /\ narrow = 0

Init ==
  \E k \in Kernels, V \in VFactors, W \in 1..MaxWidth, p \in Patterns,
     garb \in Garbages :
       Start(k, V, W, PatternImage(p, V, W), garb)

InitFlat ==
  \E k \in Kernels, W \in FlatWidths, v \in Samples, garb \in Garbages :
       /\ garb[1] = 0
       /\ Start(k, 2, W, FlatImage(v, 2, W), garb)

InitPair ==
  \E W \in PairWidths, a \in Samples, b \in NbrSamples, garb \in Garbages :
       /\ garb[1] = 0
       /\ Start("h2v2", 2, W, PairImage(a, b, 2, W), garb)

\* ------------------------------------------------------- h2v2

\* Mutant of RowLoopTest: one iteration more.
RowLoopTest_inclusive(o, V) == o <= V

\* The test of the row loop.
RowLoopTest(o, V) == o < V

\* The test of the column loops.
ColLoopTest(c, W) == c < W

\* unsigned colctr += 16 (a width is far below the 2^32 at which it would wrap).
NextCol(c) == c + VecLen

\* while (outrow < max_v_samp_factor): fetch the five row pointers.
H2V2_RowStart ==
  /\ kernel = "h2v2" /\ pc = "while"
  /\ RowLoopTest(outrow, max_v_samp_factor)
  /\ inptr0' = inrow - 1
  /\ inptr1' = inrow
  /\ inptr2' = inrow + 1
  /\ outptr0' = outrow
  /\ outptr1' = outrow + 1
  /\ outrow' = outrow + 2
  /\ rowlog' = Append(rowlog, [reads |-> {inrow - 1, inrow, inrow + 1},
                               writes |-> {outrow, outrow + 1}])
  /\ pc' = "case1"
  /\ UNCHANGED << params, output_data, inrow, colctr, colsRead, colsWritten,
                  wide, narrow >>

\* The context row next to output row r: inptr0 for the top row, inptr2 for
\* the bottom row.
NbrOf(r) == IF r = outptr0 THEN inptr0 ELSE inptr2

\* Case 1: the first pixel of both output rows.
H2V2_FirstPixel ==
  /\ kernel = "h2v2" /\ pc = "case1"
  /\ output_data' = [run \in Runs |-> [r \in DOMAIN output_data[run] |->
       [c \in DOMAIN output_data[run][r] |->
          IF r \in {outptr0, outptr1} /\ c = 0
          THEN FirstPixel(ColSum(Load(RowAt(input_data[run], inptr1), 0),
                                 Load(RowAt(input_data[run], NbrOf(r)), 0)))
          ELSE output_data[run][r][c]]]]
  /\ narrow' = MaxOf({narrow} \cup
       { FirstPixelInt(ColSum(Load(RowAt(input_data[run], inptr1), 0),
                              Load(RowAt(input_data[run], n), 0)))
         : run \in Runs, n \in {inptr0, inptr2} })
  /\ colsRead' = colsRead \cup {0}
  /\ colsWritten' = colsWritten \cup {0}
  /\ pc' = "general"
  /\ UNCHANGED << params, inptr0, inptr1, inptr2, outptr0, outptr1, inrow, outrow,
                  colctr, rowlog, wide >>

\* The output rows after one block is blended from load offset ld and stored
\* with vst2q_u8 at offset st of both output rows.
H2V2BlockStore(ld, st) ==
  [run \in Runs |-> [r \in DOMAIN output_data[run] |->
     [c \in DOMAIN output_data[run][r] |->
        IF r \in {outptr0, outptr1} /\ c \in St2Writes(st)
        THEN H2V2Pixel(RowAt(input_data[run], inptr1), RowAt(input_data[run], NbrOf(r)),
                       ld, St2Lane(st, c), St2Val(st, c))
        ELSE output_data[run][r][c]]]]

\* The largest value one block gives to a 16-bit lane.
H2V2BlockWide(ld) ==
  MaxOf({ MaxOf({ H2V2Wide(RowAt(input_data[run], inptr1), RowAt(input_data[run], n),
                           ld, k) : k \in 0..(VecLen - 1) })
          : run \in Runs, n \in {inptr0, inptr2} })

\* The largest value one block narrows to 8 bits.
H2V2BlockNarrow(ld) ==
  MaxOf({ MaxOf({ H2V2Narrow(RowAt(input_data[run], inptr1), RowAt(input_data[run], n),
                             ld, k) : k \in 0..(VecLen - 1) })
          : run \in Runs, n \in {inptr0, inptr2} })

\* The general case for the first 16 column boundaries; enters the for loop
\* with colctr = 16.
H2V2_FirstBlock ==
  /\ kernel = "h2v2" /\ pc = "general"
  /\ output_data' = H2V2BlockStore(0, FirstStoreOffset)
  /\ wide' = MaxOf({wide, H2V2BlockWide(0)})
  /\ narrow' = MaxOf({narrow, H2V2BlockNarrow(0)})
  /\ colsRead' = colsRead \cup H2V2BlendReads(0)
  /\ colsWritten' = colsWritten \cup St2Writes(FirstStoreOffset)
  /\ colctr' = VecLen
  /\ pc' = "for"
  /\ UNCHANGED << params, inptr0, inptr1, inptr2, outptr0, outptr1, inrow, outrow,
                  rowlog >>

\* One iteration of for (colctr = 16; colctr < downsampled_width; colctr += 16).
H2V2_LoopBody ==
  /\ kernel = "h2v2" /\ pc = "for"
  /\ ColLoopTest(colctr, downsampled_width)
  /\ output_data' = H2V2BlockStore(LoopLoadOffset(colctr), LoopStoreOffset(colctr))
  /\ wide' = MaxOf({wide, H2V2BlockWide(LoopLoadOffset(colctr))})
  /\ narrow' = MaxOf({narrow, H2V2BlockNarrow(LoopLoadOffset(colctr))})
  /\ colsRead' = colsRead \cup H2V2BlendReads(LoopLoadOffset(colctr))
  /\ colsWritten' = colsWritten \cup St2Writes(LoopStoreOffset(colctr))
  /\ colctr' = NextCol(colctr)
  /\ UNCHANGED << params, inptr0, inptr1, inptr2, outptr0, outptr1, inrow, outrow,
                  pc, rowlog >>

\* The for loop ends; Case 2: the last pixel of both output rows; inrow++.
H2V2_LastPixel ==
  /\ kernel = "h2v2" /\ pc = "for"
  /\ ~ColLoopTest(colctr, downsampled_width)
  /\ output_data' = [run \in Runs |-> [r \in DOMAIN output_data[run] |->
       [c \in DOMAIN output_data[run][r] |->
          IF r \in {outptr0, outptr1} /\ c = LastPixelIndex(downsampled_width)
          THEN LastPixel(ColSum(
                 Load(RowAt(input_data[run], inptr1), downsampled_width - 1),
                 Load(RowAt(input_data[run], NbrOf(r)), downsampled_width - 1)))
          ELSE output_data[run][r][c]]]]
  /\ narrow' = MaxOf({narrow} \cup
       { LastPixelInt(ColSum(
           Load(RowAt(input_data[run], inptr1), downsampled_width - 1),
           Load(RowAt(input_data[run], n), downsampled_width - 1)))
         : run \in Runs, n \in {inptr0, inptr2} })
  /\ colsRead' = colsRead \cup {downsampled_width - 1}
  /\ colsWritten' = colsWritten \cup {LastPixelIndex(downsampled_width)}
  /\ inrow' = inrow + 1
  /\ pc' = "while"
  /\ UNCHANGED << params, inptr0, inptr1, inptr2, outptr0, outptr1, outrow, colctr,
                  rowlog, wide >>

\* The row loop ends and the function returns.
H2V2_Return ==
  /\ kernel = "h2v2" /\ pc = "while"
  /\ ~RowLoopTest(outrow, max_v_samp_factor)
  /\ pc' = "done"
  /\ UNCHANGED << params, output_data, inptr0, inptr1, inptr2, outptr0, outptr1,
                  inrow, outrow, colctr, rowlog, colsRead, colsWritten, wide, narrow >>

\* ------------------------------------------------------- h1v2

\* while (outrow < max_v_samp_factor): fetch the five row pointers; inrow++;
\* enter the for loop with colctr = 0.
H1V2_RowStart ==
  /\ kernel = "h1v2" /\ pc = "while"
  /\ RowLoopTest(outrow, max_v_samp_factor)
  /\ inptr0' = inrow - 1
  /\ inptr1' = inrow
  /\ inptr2' = inrow + 1
  /\ outptr0' = outrow
  /\ outptr1' = outrow + 1
  /\ outrow' = outrow + 2
  /\ inrow' = inrow + 1
  /\ rowlog' = Append(rowlog, [reads |-> {inrow - 1, inrow, inrow + 1},
                               writes |-> {outrow, outrow + 1}])
  /\ colctr' = 0
  /\ pc' = "for"
  /\ UNCHANGED << params, output_data, colsRead, colsWritten, wide, narrow >>

\* One iteration of for (colctr = 0; colctr < downsampled_width; colctr += 16).
H1V2_LoopBody ==
  /\ kernel = "h1v2" /\ pc = "for"
  /\ ColLoopTest(colctr, downsampled_width)
  /\ output_data' = [run \in Runs |-> [r \in DOMAIN output_data[run] |->
       [c \in DOMAIN output_data[run][r] |->
          IF r \in {outptr0, outptr1} /\ c \in Q16Cols(colctr)
          THEN H1V2Pixel(RowAt(input_data[run], inptr1), RowAt(input_data[run], NbrOf(r)),
                         colctr, c - colctr, r = outptr0)
          ELSE output_data[run][r][c]]]]
  /\ wide' = MaxOf({wide} \cup
       { MaxOf({ H1V2Wide(RowAt(input_data[run], inptr1), RowAt(input_data[run], n),
                          colctr, k) : k \in 0..(VecLen - 1) })
         : run \in Runs, n \in {inptr0, inptr2} })
  /\ narrow' = MaxOf({narrow} \cup
       { MaxOf({ H1V2Narrow(RowAt(input_data[run], inptr1), RowAt(input_data[run], n),
                            colctr, k, n = inptr0) : k \in 0..(VecLen - 1) })
         : run \in Runs, n \in {inptr0, inptr2} })
  /\ colsRead' = colsRead \cup Q16Cols(colctr)
  /\ colsWritten' = colsWritten \cup Q16Cols(colctr)
  /\ colctr' = NextCol(colctr)
  /\ UNCHANGED << params, inptr0, inptr1, inptr2, outptr0, outptr1, inrow, outrow,
                  pc, rowlog >>

\* The for loop ends: back to the test of the row loop.
H1V2_LoopExit ==
  /\ kernel = "h1v2" /\ pc = "for"
  /\ ~ColLoopTest(colctr, downsampled_width)
  /\ pc' = "while"
  /\ UNCHANGED << params, output_data, inptr0, inptr1, inptr2, outptr0, outptr1,
                  inrow, outrow, colctr, rowlog, colsRead, colsWritten, wide, narrow >>

\* The row loop ends and the function returns.
H1V2_Return ==
  /\ kernel = "h1v2" /\ pc = "while"
  /\ ~RowLoopTest(outrow, max_v_samp_factor)
  /\ pc' = "done"
  /\ UNCHANGED << params, output_data, inptr0, inptr1, inptr2, outptr0, outptr1,
                  inrow, outrow, colctr, rowlog, colsRead, colsWritten, wide, narrow >>

\* ------------------------------------------------------- specifications

NextH2V2 ==
  \/ H2V2_RowStart
  \/ H2V2_FirstPixel
  \/ H2V2_FirstBlock
  \/ H2V2_LoopBody
  \/ H2V2_LastPixel
  \/ H2V2_Return

NextH1V2 ==
  \/ H1V2_RowStart
  \/ H1V2_LoopBody
  \/ H1V2_LoopExit
  \/ H1V2_Return

Next == NextH2V2 \/ NextH1V2

\* Either kernel on the pattern inputs.
Spec == Init /\ [][Next]_vars

\* Either kernel on the flat inputs.
FlatSpec == InitFlat /\ [][Next]_vars

\* The h2v2 kernel on the two-tone inputs.
PairSpec == InitPair /\ [][NextH2V2]_vars

\* ------------------------------------------------------- properties

In(run, r, c) == input_data[run][r][c]

Out(run, r, c) == output_data[run][r][c]

W0 == downsampled_width

\* The input rows whose iteration of the row loop is complete.
FinishedRows ==
  {i \in 0..(Len(rowlog) - 1) : i + 1 < Len(rowlog) \/ pc \in {"while", "done"}}

\* The neighbouring input row of output row 2i (t = 0) or 2i+1 (t = 1).
Near(i, t) == IF t = 0 THEN i - 1 ELSE i + 1

\* The vertical 3:1 blend of column c for output row 2i + t, in the integers.
VSum(run, i, t, c) == 3 * In(run, i, c) + In(run, Near(i, t), c)

\* C1, as amended: in h2v2, for every complete input row i and every column
\* boundary c with 1 <= c < downsampled_width, with s0 the vertical blend of
\* column c-1 and s1 that of column c, out[2c-1] = (3*s0 + s1 + 7) >> 4 and
\* out[2c] = (3*s1 + s0 + 8) >> 4, in the top row (neighbour i-1) and in the
\* bottom row (neighbour i+1): the nearer column has weight 3.
H2V2InteriorNearWeighted ==
  kernel = "h2v2" =>
    \A run \in Runs, i \in FinishedRows, t \in {0, 1}, c \in 1..(W0 - 1) :
      /\ Out(run, 2 * i + t, 2 * c - 1)
           = (3 * VSum(run, i, t, c - 1) + VSum(run, i, t, c) + 7) \div 16
      /\ Out(run, 2 * i + t, 2 * c)
           = (3 * VSum(run, i, t, c) + VSum(run, i, t, c - 1) + 8) \div 16

\* C1 as stated: out[2c-1] = (3*s1 + s0 + 7) >> 4 and
\* out[2c] = (3*s0 + s1 + 8) >> 4 (the farther column has weight 3).
H2V2InteriorAsStated ==
  kernel = "h2v2" =>
    \A run \in Runs, i \in FinishedRows, t \in {0, 1}, c \in 1..(W0 - 1) :
      /\ Out(run, 2 * i + t, 2 * c - 1)
           = (3 * VSum(run, i, t, c) + VSum(run, i, t, c - 1) + 7) \div 16
      /\ Out(run, 2 * i + t, 2 * c)
           = (3 * VSum(run, i, t, c - 1) + VSum(run, i, t, c) + 8) \div 16

\* A complete h2v2 call on samples whose vertical blends differ between
\* adjacent columns.
H2V2InteriorWitness ==
  /\ kernel = "h2v2" /\ pc = "done" /\ W0 > VecLen + 1
  /\ \E c \in 1..(W0 - 1) : VSum(1, 0, 0, c) # VSum(1, 0, 0, c - 1)

\* C2: in h2v2, for every width >= 1 and every complete input row i,
\* out[0] = ((3*in[i][0] + nbr[0])*4 + 8) >> 4 and
\* out[2W-1] = ((3*in[i][W-1] + nbr[W-1])*4 + 7) >> 4 in the top row
\* (nbr = row i-1) and the bottom row (nbr = row i+1).
H2V2EdgePixels ==
  kernel = "h2v2" =>
    \A run \in Runs, i \in FinishedRows, t \in {0, 1} :
      /\ Out(run, 2 * i + t, 0) = (VSum(run, i, t, 0) * 4 + 8) \div 16
      /\ Out(run, 2 * i + t, 2 * W0 - 1) = (VSum(run, i, t, W0 - 1) * 4 + 7) \div 16

\* A complete h2v2 call of width 1 in which the interior formula, which the
\* vector store wrote to index 1 from the padding column 1, gives another
\* value than the last-pixel formula.
H2V2EdgeWitness ==
  /\ kernel = "h2v2" /\ pc = "done" /\ W0 = 1
  /\ (3 * VSum(1, 0, 0, 0) + VSum(1, 0, 0, 1) + 7) \div 16
       # (VSum(1, 0, 0, 0) * 4 + 7) \div 16

\* C3: in h1v2, for every complete input row i and every column c in
\* [0, W), out_top[c] = (3*in[i][c] + in[i-1][c] + 1) >> 2 and
\* out_bottom[c] = (3*in[i][c] + in[i+1][c] + 2) >> 2.
H1V2AllColumns ==
  kernel = "h1v2" =>
    \A run \in Runs, i \in FinishedRows, c \in 0..(W0 - 1) :
      /\ Out(run, 2 * i, c) = (VSum(run, i, 0, c) + 1) \div 4
      /\ Out(run, 2 * i + 1, c) = (VSum(run, i, 1, c) + 2) \div 4

\* A complete h1v2 call whose width is no multiple of 16 and whose top and
\* bottom rows differ.
H1V2Witness ==
  /\ kernel = "h1v2" /\ pc = "done" /\ W0 > VecLen /\ W0 % VecLen # 0
  /\ Out(1, 0, W0 - 1) # Out(1, 1, W0 - 1)

\* C4: in h2v2, for every complete input row i and every column c with
\* 0 <= c < W-1, out[2c+1] = (9*in[i][c] + 3*nbr[c] + 3*in[i][c+1] + nbr[c+1]
\* + 7) >> 4 and out[2c+2] = (9*in[i][c+1] + 3*nbr[c+1] + 3*in[i][c] + nbr[c]
\* + 8) >> 4, with nbr = row i-1 for the top row and row i+1 for the bottom
\* row, whether the first block or a loop iteration wrote the column.
H2V2NineThreeThreeOne ==
  kernel = "h2v2" =>
    \A run \in Runs, i \in FinishedRows, t \in {0, 1}, c \in 0..(W0 - 2) :
      /\ Out(run, 2 * i + t, 2 * c + 1)
           = (9 * In(run, i, c) + 3 * In(run, Near(i, t), c)
              + 3 * In(run, i, c + 1) + In(run, Near(i, t), c + 1) + 7) \div 16
      /\ Out(run, 2 * i + t, 2 * c + 2)
           = (9 * In(run, i, c + 1) + 3 * In(run, Near(i, t), c + 1)
              + 3 * In(run, i, c) + In(run, Near(i, t), c) + 8) \div 16

\* A complete h2v2 call in which the first block and a loop iteration both
\* wrote output indices 31 and 32, on samples that differ there between rows
\* and columns.
H2V2OverlapWitness ==
  /\ kernel = "h2v2" /\ pc = "done" /\ W0 > VecLen + 1
  /\ In(1, 0, VecLen - 1) # In(1, 0, VecLen)
  /\ In(1, 0, VecLen) # In(1, -1, VecLen)
  /\ Out(1, 0, 2 * VecLen - 1) # Out(1, 0, 2 * VecLen)

\* The value ((3*a+b)*4 + 8) >> 4 that a uniform +8 rounding would store for
\* the vertical blend x = 3*a+b.
UniformRounding(x) == (x * 4 + 8) \div 16

\* C5, as amended: at the last output pixel of h2v2, for every vertical blend
\* x = 3*a+b of the last column, the stored value is (x*4 + 7) >> 4; it
\* equals the value of a uniform +8 rounding whenever x mod 16 = 15, and
\* differs from it exactly when x mod 4 = 2.
LastPixelBiasDiffersOnlyAtHalf ==
  kernel = "h2v2" =>
    \A run \in Runs, i \in FinishedRows, t \in {0, 1} :
      LET x == VSum(run, i, t, W0 - 1)
          stored == Out(run, 2 * i + t, 2 * W0 - 1)
      IN /\ stored = (x * 4 + 7) \div 16
         /\ x % 16 = 15 => stored = UniformRounding(x)
         /\ stored # UniformRounding(x) <=> x % 4 = 2

\* C5 as stated: whenever x mod 16 = 15, the stored value differs from the
\* value of a uniform +8 rounding.
LastPixelBiasAsStated ==
  kernel = "h2v2" =>
    \A run \in Runs, i \in FinishedRows, t \in {0, 1} :
      VSum(run, i, t, W0 - 1) % 16 = 15
        => Out(run, 2 * i + t, 2 * W0 - 1) # UniformRounding(VSum(run, i, t, W0 - 1))

\* A complete h2v2 call whose last column has 3*a+b = 15 mod 16 in the top
\* row.
LastPixelBiasWitness ==
  /\ kernel = "h2v2" /\ pc = "done"
  /\ VSum(1, 0, 0, W0 - 1) % 16 = 15

\* C6: in both kernels, for every sample v and every width, if the columns
\* [0, W) of the three context rows of a complete input row i all hold v, then
\* every pixel in the logical width of output rows 2i and 2i+1 is v.
FlatInputFlatOutput ==
  \A run \in Runs, i \in FinishedRows :
    (\A r \in {i - 1, i, i + 1}, c \in 0..(W0 - 1) : In(run, r, c) = In(run, i, 0))
      => \A t \in {0, 1}, c \in 0..(OutWidth(kernel, W0) - 1) :
           Out(run, 2 * i + t, c) = In(run, i, 0)

\* A complete h2v2 call on a flat input of the largest sample whose width
\* needs the loop, with padding that is not flat.
FlatWitness ==
  /\ kernel = "h2v2" /\ pc = "done" /\ W0 > VecLen
  /\ \A r \in {-1, 0, 1}, c \in 0..(W0 - 1) : In(1, r, c) = MAXJSAMPLE
  /\ In(1, 0, W0) # MAXJSAMPLE

\* C7: for every even max_v_samp_factor and every width, the row loop of each
\* kernel runs max_v_samp_factor/2 times and returns; iteration i fetches
\* exactly the input rows i-1, i, i+1 and the output rows 2i, 2i+1, so on
\* return the output rows are exactly 0 .. V-1 and the input rows -1 .. V/2.
\* A call that has not returned can take a step, and the loop counters stay
\* within their ranges.
RowLoopExact ==
  /\ 2 * Len(rowlog) <= max_v_samp_factor
  /\ \A j \in 1..Len(rowlog) :
       /\ rowlog[j].reads = {j - 2, j - 1, j}
       /\ rowlog[j].writes = {2 * (j - 1), 2 * (j - 1) + 1}
  /\ outrow = 2 * Len(rowlog)
  /\ colctr < downsampled_width + VecLen
  /\ pc # "done" => ENABLED Next
  /\ pc = "done" =>
       /\ 2 * Len(rowlog) = max_v_samp_factor
       /\ UNION {rowlog[j].writes : j \in 1..Len(rowlog)} = 0..(max_v_samp_factor - 1)
       /\ UNION {rowlog[j].reads : j \in 1..Len(rowlog)}
            = (-1)..(max_v_samp_factor \div 2)

\* A call with more than one iteration of the row loop has returned.
RowLoopWitness ==
  /\ pc = "done" /\ max_v_samp_factor > 2 /\ Len(rowlog) > 1

\* W rounded up to a multiple of 32.
UpTo32(W) == 32 * ((W + 31) \div 32)

\* C8: for every width W, h2v2 writes only output columns in
\* [0, max(64, 2W rounded up to 32)) and reads only input columns in
\* [0, W rounded up to 32); h1v2 reads and writes only columns in
\* [0, W rounded up to 32).
ColsInBounds ==
  /\ kernel = "h2v2" =>
       /\ \A c \in colsWritten :
            c >= 0 /\ c < (IF UpTo32(2 * W0) > 64 THEN UpTo32(2 * W0) ELSE 64)
       /\ \A c \in colsRead : c >= 0 /\ c < UpTo32(W0)
  /\ kernel = "h1v2" =>
       /\ \A c \in colsWritten : c >= 0 /\ c < UpTo32(W0)
       /\ \A c \in colsRead : c >= 0 /\ c < UpTo32(W0)

\* A complete h2v2 call that stored past the logical width rounded up to 32
\* (width 16: index 32), and so inside the minimum of 64 only.
ColsWitness ==
  /\ kernel = "h2v2" /\ pc = "done"
  /\ \E c \in colsWritten : c >= UpTo32(2 * W0)
  /\ \E c \in colsRead : c >= W0

\* C9: for all 8-bit inputs, in both kernels, every value given to a 16-bit
\* lane is below 2^16 before it is cut to 16 bits, and every value narrowed or
\* cast to 8 bits is at most 255 before it is cut.
NoWrapNoLoss ==
  /\ wide < 65536
  /\ narrow <= 255

\* A complete h2v2 call that reached the largest intermediates,
\* 3*1020 + 1020 + 8 and 255.
NoWrapWitness ==
  /\ kernel = "h2v2" /\ pc = "done"
  /\ wide = 4088
  /\ narrow = 255

\* C10: for two runs of a kernel with the same parameters whose input rows
\* agree on the columns [0, W), the logical width of every complete output
\* row is the same in both runs, whatever the padding columns and the output
\* rows held before.
LogicalOutputFromLogicalInput ==
  (\A r \in InRows(max_v_samp_factor), c \in 0..(W0 - 1) : In(1, r, c) = In(2, r, c))
    => \A i \in FinishedRows, t \in {0, 1}, c \in 0..(OutWidth(kernel, W0) - 1) :
         Out(1, 2 * i + t, c) = Out(2, 2 * i + t, c)

\* A complete h2v2 call whose two runs differ in the padding column W that the
\* vector loads read, and past the logical width of the output.
TwoRunsWitness ==
  /\ kernel = "h2v2" /\ pc = "done"
  /\ W0 \in colsRead
  /\ In(1, 0, W0) # In(2, 0, W0)
  /\ Out(1, 0, 2 * W0) # Out(2, 0, 2 * W0)

=============================================================================
